---------------------------- MODULE Spec2Model ----------------------------
(***************************************************************************)
(* Model of the package-and-publish pipeline of rl-baselines3-zoo:         *)
(*   fix_huggingface_sb3/push_to_hub.py  package_to_hub, _generate_replay, *)
(*                                       _evaluate_agent, is_atari         *)
(*                                       _generate_config, push_to_hub     *)
(*   rl_zoo3/push_to_hub.py              package_to_hub, __main__          *)
(* One behaviour of Spec is one call of package_to_hub, one of PushSpec    *)
(* one call of push_to_hub, one of MainSpec one run of the rl_zoo3 script. *)
(* Every statement that can fail is an action that either completes or     *)
(* raises.                                                                 *)
(***************************************************************************)
EXTENDS Integers, Sequences, FiniteSets, TLC

VARIABLES
    impl,             \* which package_to_hub is called: "fix" or "zoo"
    pc,               \* index of the next statement group in Pipeline(impl); 0 = not inside the body
    outcome,          \* "idle", "running", "returned", "raised"
    args,             \* the arguments of the call and the properties of eval_env / env_id
    is_deterministic, \* the local variable is_deterministic of package_to_hub
    vn,               \* the VecNormalize wrapper's flags: [training, norm_reward]
    trace,            \* the statement groups completed so far, in order
    remote,           \* the calls made on HfApi, in order
    hub,              \* the remote repository: [exists, created, files, commits]
    staging,          \* the staging directory: [exists, files]
    written,          \* the files written into the staging directory by the steps of this call
    rpc,              \* position inside _generate_replay
    rloc,             \* the locals of _generate_replay: [i, obs, lstm_states, episode_starts]
    rlog,             \* what _generate_replay has done: its calls in order, the
                      \* arguments of each predict, the numbers of close, encode
                      \* and msg.fail calls, whether its video directory exists,
                      \* whether replay.mp4 was produced, whether it was entered
    evald,            \* the flag given to evaluate_policy and the one written to
                      \* results.json (each {} until then), and whether is_atari
                      \* returned a value
    raised,           \* the exception that ended the call, [at, kind], and the
                      \* statements that have raised so far, seen
    cli,              \* rl_zoo3 __main__: the parsed flags and its locals
    push              \* fix_huggingface_sb3 push_to_hub: its arguments and locals

vars == <<impl, pc, outcome, args, is_deterministic, vn, trace, remote, hub,
          staging, written, rpc, rloc, rlog, evald, raised, cli, push>>

(***************************************************************************)
(* Bounds                                                                  *)
(***************************************************************************)
MaxVideoLength == 2

(***************************************************************************)
(* Inputs                                                                  *)
(***************************************************************************)
Impls == {"fix", "zoo"}

\* What a statement can do: complete, raise an Exception, or be interrupted
\* (KeyboardInterrupt derives from BaseException, not from Exception).
Outcomes == {"ok", "Exception", "KeyboardInterrupt"}

\* os.system returns the exit status of ffmpeg instead of raising.
EncodeOutcomes == Outcomes \cup {"nonzero"}

\* Contents of the remote repository before the call.
RemoteContents == {{}, {"vec_normalize.pkl", "replay.mp4"}}

\* A model name: its stem and the extension it was given with, "" or ".zip".
ModelNames == [stem : {"model"}, ext : {"", ".zip"}]

Args == [model_name       : ModelNames,
         is_deterministic : BOOLEAN,
         video_length     : 0..MaxVideoLength,
         generate_video   : BOOLEAN,
         logs             : BOOLEAN,
         has_vec_normalize: BOOLEAN,
         env_is_atari     : BOOLEAN]

(***************************************************************************)
(* The body of package_to_hub, statement group by statement group          *)
(***************************************************************************)
PipelineUploadBeforeCard(im) ==
    IF im = "fix"
    THEN <<"create_repo", "enter_tmpdir", "save", "vec_normalize", "is_atari",
           "config", "evaluate", "replay", "upload_folder", "card", "logs",
           "return">>
    ELSE <<"create_repo", "snapshot_download", "gitattributes", "save",
           "vec_normalize", "unzip", "copy_config", "metrics_zip", "evaluate",
           "replay", "cleanup", "upload_folder", "card", "return">>

PipelineCreateRepoLast(im) ==
    IF im = "fix"
    THEN <<"enter_tmpdir", "save", "vec_normalize", "is_atari",
           "config", "evaluate", "replay", "card", "logs", "create_repo",
           "upload_folder", "return">>
    ELSE <<"snapshot_download", "gitattributes", "save",
           "vec_normalize", "unzip", "copy_config", "metrics_zip", "evaluate",
           "replay", "cleanup", "card", "create_repo", "upload_folder", "return">>

PipelineNoSnapshot(im) ==
    IF im = "fix"
    THEN <<"create_repo", "enter_tmpdir", "save", "vec_normalize", "is_atari",
           "config", "evaluate", "replay", "card", "logs", "upload_folder",
           "return">>
    ELSE <<"create_repo", "gitattributes", "save",
           "vec_normalize", "unzip", "copy_config", "metrics_zip", "evaluate",
           "replay", "cleanup", "card", "upload_folder", "return">>

Pipeline(im) ==
    IF im = "fix"
    THEN <<"create_repo", "enter_tmpdir", "save", "vec_normalize", "is_atari",
           "config", "evaluate", "replay", "card", "logs", "upload_folder",
           "return">>
    ELSE <<"create_repo", "snapshot_download", "gitattributes", "save",
           "vec_normalize", "unzip", "copy_config", "metrics_zip", "evaluate",
           "replay", "cleanup", "card", "upload_folder", "return">>

\* The statement group the call is about to execute.
AtStep(s) ==
    /\ outcome = "running"
    /\ pc \in 1..Len(Pipeline(impl))
    /\ Pipeline(impl)[pc] = s
    /\ rpc = "none"

\* The exception kinds caught around a statement.  package_to_hub has no
\* try block; _generate_replay has one around the loop, close and encode.
HandledAlsoEvaluateAndCard(s) ==
    IF s \in {"evaluate", "card", "predict", "step", "close", "encode"}
    THEN {"KeyboardInterrupt", "Exception"}
    ELSE {}

Handled(s) ==
    IF s \in {"predict", "step", "close", "encode"}
    THEN {"KeyboardInterrupt", "Exception"}
    ELSE {}

\* The staging directory once the call has ended.  fix: the with block of
\* tempfile.TemporaryDirectory removes it on every exit; zoo: it is
\* local_repo_path / repo_name and nothing removes it.
ExitStagingKeep(im, st) == st

ExitStaging(im, st) ==
    IF im = "fix" THEN [exists |-> FALSE, files |-> {}] ELSE st

\* Lines 325-327 (fix), 221-223 (zoo).
FreezeVecNormalizeTrainingOnly(v) == [v EXCEPT !.training = FALSE]

FreezeVecNormalize(v) == [v EXCEPT !.training = FALSE, !.norm_reward = FALSE]

\* Lines 334-335 of fix: if is_deterministic: is_deterministic = not is_atari(env_id)
EffectiveDeterministicNoNegation(det, atari) == IF det THEN atari ELSE det

EffectiveDeterministic(det, atari) == IF det THEN ~atari ELSE det

\* for _ in range(video_length)
LoopContinuesInclusive(i, video_length) == i <= video_length

LoopContinues(i, video_length) == i < video_length

\* push_to_hub has not been called.
NoPush == [pc |-> "none", repo_id |-> "", filename |-> <<>>, repo_url |-> "",
           uploads |-> <<>>, result |-> ""]

\* The command line has not been parsed.
\* args are the parsed flags; stochastic and deterministic are the locals of
\* lines 401-402, {} until they are assigned.
NoCli == [pc |-> "none",
          args |-> [stochastic |-> FALSE, deterministic |-> FALSE,
                    no_render |-> FALSE, n_timesteps |-> 0],
          is_atari |-> FALSE, is_minigrid |-> FALSE,
          stochastic |-> {}, deterministic |-> {}]

NoReplay == [i |-> 0, obs |-> -1, lstm_states |-> -1, episode_starts |-> -1]

NoReplayLog == [calls |-> <<>>, predicts |-> <<>>, closes |-> 0, encodes |-> 0,
                fails |-> 0, tmp |-> FALSE, mp4 |-> FALSE, ran |-> FALSE]

Init ==
    /\ impl = "fix"
    /\ pc = 0
    /\ outcome = "idle"
    /\ args = [model_name |-> [stem |-> "model", ext |-> ""],
               is_deterministic |-> TRUE, video_length |-> 0,
               generate_video |-> FALSE, logs |-> FALSE,
               has_vec_normalize |-> FALSE, env_is_atari |-> FALSE]
    /\ is_deterministic = TRUE
    /\ vn = [training |-> TRUE, norm_reward |-> TRUE]
    /\ trace = <<>>
    /\ remote = <<>>
    /\ hub = [exists |-> FALSE, created |-> FALSE, files |-> {}, commits |-> 0]
    /\ staging = [exists |-> FALSE, files |-> {}]
    /\ written = {}
    /\ rpc = "none"
    /\ rloc = NoReplay
    /\ rlog = NoReplayLog
    /\ evald = [evaluate |-> {}, results |-> {}, atari_consulted |-> FALSE]
    /\ raised = [at |-> "none", kind |-> "none", seen |-> {}]
    /\ cli = NoCli
    /\ push = NoPush

(***************************************************************************)
(* Exceptions                                                              *)
(***************************************************************************)
\* An exception no handler catches leaves package_to_hub; the with blocks
\* that are open (the video directory, and the staging directory of fix)
\* are exited on the way out.
Propagate(s, k, rem) ==
    /\ outcome' = "raised"
    /\ pc' = 0
    /\ rpc' = "none"
    /\ raised' = [at |-> s, kind |-> k, seen |-> raised.seen \cup {s}]
    /\ staging' = ExitStaging(impl, staging)
    /\ rlog' = [rlog EXCEPT !.tmp = FALSE]
    /\ remote' = rem
    /\ UNCHANGED <<cli, push, impl, args, is_deterministic, vn, trace, hub, written,
                   rloc, evald>>

\* The except clauses of _generate_replay (lines 159-165): KeyboardInterrupt
\* passes silently, Exception is reported with three msg.fail calls.
Swallow(s, k, rem) ==
    /\ IF rpc # "none"
       THEN /\ rpc' = "exit"
            /\ pc' = pc
       ELSE /\ rpc' = rpc
            /\ pc' = pc + 1
    /\ rlog' = [rlog EXCEPT !.fails = @ + (IF k = "Exception" THEN 3 ELSE 0)]
    /\ raised' = [raised EXCEPT !.seen = @ \cup {s}]
    /\ remote' = rem
    /\ UNCHANGED <<cli, push, impl, outcome, args, is_deterministic, vn, trace, hub,
                   staging, written, rloc, evald>>

Failure(s, k, rem) ==
    IF k \in Handled(s) THEN Swallow(s, k, rem) ELSE Propagate(s, k, rem)

(***************************************************************************)
(* package_to_hub                                                          *)
(***************************************************************************)
\* The caller invokes one of the two package_to_hub functions.
Call ==
    /\ outcome = "idle"
    /\ \E im \in Impls, a \in Args, tr \in BOOLEAN, nr \in BOOLEAN,
          ex \in BOOLEAN, fs \in RemoteContents :
        /\ im = "fix" => ~a.generate_video
        /\ im = "zoo" => ~a.logs
        /\ im = "zoo" => a.model_name.ext = ""
        /\ ~a.has_vec_normalize => (tr /\ nr)
        /\ ~ex => fs = {}
        /\ impl' = im
        /\ args' = a
        /\ is_deterministic' = a.is_deterministic
        /\ vn' = [training |-> tr, norm_reward |-> nr]
        /\ hub' = [exists |-> ex, created |-> FALSE, files |-> fs, commits |-> 0]
    /\ outcome' = "running"
    /\ pc' = 1
    /\ UNCHANGED <<cli, push, trace, remote, staging, written, rpc, rloc, rlog, evald,
                   raised>>

\* A statement group that only writes files into the staging directory.
WriteStep(s, fs) ==
    /\ AtStep(s)
    /\ \E r \in Outcomes :
        IF r = "ok"
        THEN /\ pc' = pc + 1
             /\ trace' = Append(trace, s)
             /\ staging' = [staging EXCEPT !.files = @ \cup fs]
             /\ written' = written \cup fs
             /\ UNCHANGED <<cli, push, impl, outcome, args, is_deterministic, vn, remote,
                            hub, rpc, rloc, rlog, evald, raised>>
        ELSE Failure(s, r, remote)

\* A statement group whose condition is false.
SkipStep(s) ==
    /\ AtStep(s)
    /\ pc' = pc + 1
    /\ UNCHANGED <<cli, push, impl, outcome, args, is_deterministic, vn, trace, remote,
                   hub, staging, written, rpc, rloc, rlog, evald, raised>>

\* api.create_repo(repo_id=repo_id, exist_ok=True)
CreateRepo ==
    /\ AtStep("create_repo")
    /\ \E r \in Outcomes :
        IF r = "ok"
        THEN /\ pc' = pc + 1
             /\ trace' = Append(trace, "create_repo")
             /\ remote' = Append(remote, "create_repo")
             /\ hub' = [hub EXCEPT !.exists = TRUE,
                                   !.created = @ \/ ~hub.exists]
             /\ UNCHANGED <<cli, push, impl, outcome, args, is_deterministic, vn, staging,
                            written, rpc, rloc, rlog, evald, raised>>
        ELSE Failure("create_repo", r, Append(remote, "create_repo"))

\* fix: with tempfile.TemporaryDirectory() as tmpdirname
EnterTmpdir ==
    /\ AtStep("enter_tmpdir")
    /\ \E r \in Outcomes :
        IF r = "ok"
        THEN /\ pc' = pc + 1
             /\ trace' = Append(trace, "enter_tmpdir")
             /\ staging' = [exists |-> TRUE, files |-> {}]
             /\ UNCHANGED <<cli, push, impl, outcome, args, is_deterministic, vn, remote,
                            hub, written, rpc, rloc, rlog, evald, raised>>
        ELSE Failure("enter_tmpdir", r, remote)

\* zoo: api.snapshot_download(repo_id=repo_id, local_dir=repo_local_path)
SnapshotDownload ==
    /\ AtStep("snapshot_download")
    /\ \E r \in Outcomes :
        IF r = "ok"
        THEN /\ pc' = pc + 1
             /\ trace' = Append(trace, "snapshot_download")
             /\ remote' = Append(remote, "snapshot_download")
             /\ staging' = [exists |-> TRUE, files |-> staging.files \cup hub.files]
             /\ UNCHANGED <<cli, push, impl, outcome, args, is_deterministic, vn, hub,
                            written, rpc, rloc, rlog, evald, raised>>
        ELSE Failure("snapshot_download", r, Append(remote, "snapshot_download"))

\* zoo: add the mp4 rule to .gitattributes
GitAttributes == WriteStep("gitattributes", {".gitattributes"})

\* model.save(<staging> / model_name)
Save == WriteStep("save", {"model.zip"})

\* maybe_vec_normalize = unwrap_vec_normalize(eval_env) and the if after it
VecNormalize ==
    /\ AtStep("vec_normalize")
    /\ IF args.has_vec_normalize
       THEN \E r \in Outcomes :
              IF r = "ok"
              THEN /\ pc' = pc + 1
                   /\ trace' = Append(trace, "vec_normalize")
                   /\ staging' = [staging EXCEPT !.files = @ \cup {"vec_normalize.pkl"}]
                   /\ written' = written \cup {"vec_normalize.pkl"}
                   /\ vn' = FreezeVecNormalize(vn)
                   /\ UNCHANGED <<cli, push, impl, outcome, args, is_deterministic, remote,
                                  hub, rpc, rloc, rlog, evald, raised>>
              ELSE Failure("vec_normalize", r, remote)
       ELSE SkipStep("vec_normalize")

\* fix: if is_deterministic: is_deterministic = not is_atari(env_id)
IsAtari ==
    /\ AtStep("is_atari")
    /\ IF is_deterministic
       THEN \E r \in Outcomes :
              IF r = "ok"
              THEN /\ pc' = pc + 1
                   /\ trace' = Append(trace, "is_atari")
                   /\ is_deterministic' =
                          EffectiveDeterministic(is_deterministic, args.env_is_atari)
                   /\ evald' = [evald EXCEPT !.atari_consulted = TRUE]
                   /\ UNCHANGED <<cli, push, impl, outcome, args, vn, remote, hub, staging,
                                  written, rpc, rloc, rlog, raised>>
              ELSE Failure("is_atari", r, remote)
       ELSE SkipStep("is_atari")

\* fix: _generate_config(model_name, tmpdirname)
\* _generate_config (lines 23-48), called at line 338.
\* model.endswith(".zip")
EndsWithZip(model) == model.ext = ".zip"

\* Line 30: unzipped_model_folder = model, the name as it was given.
UnzippedModelFolder(model) == model

\* Lines 33-34: the name with ".zip" appended unless it ends with it.
ArchiveName(model) ==
    IF EndsWithZip(model) THEN model ELSE [model EXCEPT !.ext = ".zip"]

\* local_path / name: the entry of the staging directory a name denotes.
PathStr(name) == IF name.ext = ".zip" THEN "model.zip" ELSE "model"

\* Line 38: extractall creates its members below the target path, which
\* raises when that path is an existing regular file; the only regular file
\* the target can be is the archive opened at line 37.
ExtractCollides(model) ==
    PathStr(UnzippedModelFolder(model)) = PathStr(ArchiveName(model))

Config ==
    /\ AtStep("config")
    /\ \E r \in Outcomes :
        IF r = "ok" /\ ExtractCollides(args.model_name)
        THEN Failure("extractall", "Exception", remote)
        ELSE IF r = "ok"
        THEN /\ pc' = pc + 1
             /\ trace' = Append(trace, "config")
             /\ staging' = [staging EXCEPT !.files = @ \cup
                               {PathStr(UnzippedModelFolder(args.model_name)),
                                "config.json"}]
             /\ written' = written \cup
                               {PathStr(UnzippedModelFolder(args.model_name)),
                                "config.json"}
             /\ UNCHANGED <<cli, push, impl, outcome, args, is_deterministic, vn,
                            remote, hub, rpc, rloc, rlog, evald, raised>>
        ELSE Failure("config", r, remote)

\* zoo: unzip the model
Unzip == WriteStep("unzip", {"model"})

\* zoo: copy args.yml and config.yml, dump env_kwargs.yml
CopyConfig == WriteStep("copy_config", {"args.yml", "config.yml", "env_kwargs.yml"})

\* zoo: train_eval_metrics.zip
MetricsZip == WriteStep("metrics_zip", {"train_eval_metrics.zip"})

\* _evaluate_agent(model, eval_env, n_eval_episodes, is_deterministic, <staging>)
Evaluate ==
    /\ AtStep("evaluate")
    /\ \E r \in Outcomes :
        IF r = "ok"
        THEN /\ pc' = pc + 1
             /\ trace' = Append(trace, "evaluate")
             /\ evald' = [evald EXCEPT !.evaluate = {is_deterministic},
                                       !.results = {is_deterministic}]
             /\ staging' = [staging EXCEPT !.files = @ \cup {"results.json"}]
             /\ written' = written \cup {"results.json"}
             /\ UNCHANGED <<cli, push, impl, outcome, args, is_deterministic, vn, remote,
                            hub, rpc, rloc, rlog, raised>>
        ELSE Failure("evaluate", r, remote)

(***************************************************************************)
(* _generate_replay                                                        *)
(***************************************************************************)
\* zoo calls _generate_replay only if generate_video; fix always.
ReplayWanted == impl = "fix" \/ args.generate_video

\* _generate_replay is entered: with tempfile.TemporaryDirectory() as tmpdirname
ReplayEnter ==
    /\ AtStep("replay")
    /\ IF ReplayWanted
       THEN \E r \in Outcomes :
              IF r = "ok"
              THEN /\ rpc' = "recorder"
                   /\ rloc' = NoReplay
                   /\ rlog' = [rlog EXCEPT !.tmp = TRUE, !.ran = TRUE]
                   /\ UNCHANGED <<cli, push, impl, pc, outcome, args, is_deterministic, vn,
                                  trace, remote, hub, staging, written, evald,
                                  raised>>
              ELSE Failure("replay_tmpdir", r, remote)
       ELSE SkipStep("replay")

\* env = VecVideoRecorder(eval_env, tmpdirname, ...)
ReplayRecorder ==
    /\ rpc = "recorder"
    /\ \E r \in Outcomes :
        IF r = "ok"
        THEN /\ rpc' = "reset"
             /\ UNCHANGED <<cli, push, impl, pc, outcome, args, is_deterministic, vn, trace,
                            remote, hub, staging, written, rloc, rlog, evald,
                            raised>>
        ELSE Failure("recorder", r, remote)

\* obs = env.reset(); lstm_states = None; episode_starts = np.ones(...)
\* obs 0 is the reset observation, lstm_states 0 is None, episode_starts 0
\* is all true; value k > 0 is the one produced in iteration k.
ReplayReset ==
    /\ rpc = "reset"
    /\ \E r \in Outcomes :
        IF r = "ok"
        THEN /\ rpc' = "loop"
             /\ rloc' = [i |-> 0, obs |-> 0, lstm_states |-> 0, episode_starts |-> 0]
             /\ UNCHANGED <<cli, push, impl, pc, outcome, args, is_deterministic, vn, trace,
                            remote, hub, staging, written, rlog, evald, raised>>
        ELSE Failure("reset", r, remote)

\* action, lstm_states = model.predict(obs, state=lstm_states,
\*     episode_start=episode_starts, deterministic=is_deterministic)
ReplayPredict ==
    /\ rpc = "loop"
    /\ LoopContinues(rloc.i, args.video_length)
    /\ \E r \in Outcomes :
        IF r = "ok"
        THEN /\ rpc' = "step"
             /\ rlog' = [rlog EXCEPT
                    !.calls = Append(@, "predict"),
                    !.predicts = Append(@, [obs |-> rloc.obs,
                                            state |-> rloc.lstm_states,
                                            episode_start |-> rloc.episode_starts,
                                            deterministic |-> is_deterministic])]
             /\ rloc' = [rloc EXCEPT !.lstm_states = rloc.i + 1]
             /\ UNCHANGED <<cli, push, impl, pc, outcome, args, is_deterministic, vn, trace,
                            remote, hub, staging, written, evald, raised>>
        ELSE Failure("predict", r, remote)

\* obs, _, episode_starts, _ = env.step(action)
ReplayStep ==
    /\ rpc = "step"
    /\ \E r \in Outcomes :
        IF r = "ok"
        THEN /\ rpc' = "loop"
             /\ rlog' = [rlog EXCEPT !.calls = Append(@, "step")]
             /\ rloc' = [rloc EXCEPT !.i = @ + 1,
                                     !.obs = rloc.i + 1,
                                     !.episode_starts = rloc.i + 1]
             /\ UNCHANGED <<cli, push, impl, pc, outcome, args, is_deterministic, vn, trace,
                            remote, hub, staging, written, evald, raised>>
        ELSE Failure("step", r, remote)

\* the loop is over: env.close()
ReplayClose ==
    /\ rpc = "loop"
    /\ ~LoopContinues(rloc.i, args.video_length)
    /\ \E r \in Outcomes :
        IF r = "ok"
        THEN /\ rpc' = "encode"
             /\ rlog' = [rlog EXCEPT !.calls = Append(@, "close"),
                                     !.closes = @ + 1]
             /\ UNCHANGED <<cli, push, impl, pc, outcome, args, is_deterministic, vn, trace,
                            remote, hub, staging, written, rloc, evald, raised>>
        ELSE Failure("close", r, remote)

\* os.system("ffmpeg -y -i <inp> -vcodec h264 <staging>/replay.mp4"): the
\* exit status is discarded, so a failing ffmpeg is not an exception.
ReplayEncode ==
    /\ rpc = "encode"
    /\ \E r \in EncodeOutcomes :
        IF r \in {"ok", "nonzero"}
        THEN /\ rpc' = "exit"
             /\ rlog' = [rlog EXCEPT !.calls = Append(@, "encode"),
                                     !.encodes = @ + 1,
                                     !.mp4 = (r = "ok")]
             /\ staging' = IF r = "ok"
                           THEN [staging EXCEPT !.files = @ \cup {"replay.mp4"}]
                           ELSE staging
             /\ written' = IF r = "ok" THEN written \cup {"replay.mp4"} ELSE written
             /\ UNCHANGED <<cli, push, impl, pc, outcome, args, is_deterministic, vn, trace,
                            remote, hub, rloc, evald, raised>>
        ELSE Failure("encode", r, remote)

\* the with block of _generate_replay is left and the function returns
ReplayExit ==
    /\ rpc = "exit"
    /\ rpc' = "none"
    /\ pc' = pc + 1
    /\ trace' = Append(trace, "replay")
    /\ rlog' = [rlog EXCEPT !.tmp = FALSE]
    /\ UNCHANGED <<cli, push, impl, outcome, args, is_deterministic, vn, remote, hub,
                   staging, written, rloc, evald, raised>>

(***************************************************************************)
(* package_to_hub, after the replay                                        *)
(***************************************************************************)
\* zoo: remove test.mp4 and *.meta.json from the working directory
Cleanup ==
    /\ AtStep("cleanup")
    /\ IF args.generate_video
       THEN WriteStep("cleanup", {})
       ELSE SkipStep("cleanup")

\* fix: _generate_model_card(...).save(README.md)
\* zoo: generate_model_card(...) and save_model_card(...)
Card == WriteStep("card", {"README.md"})

\* fix: if logs: _add_logdir(tmpdirname, Path(logs))
Logs ==
    /\ AtStep("logs")
    /\ IF args.logs
       THEN WriteStep("logs", {"logs"})
       ELSE SkipStep("logs")

\* api.upload_folder(repo_id=..., folder_path=<staging>, commit_message=...)
UploadFolder ==
    /\ AtStep("upload_folder")
    /\ \E r \in Outcomes :
        IF r = "ok"
        THEN /\ pc' = pc + 1
             /\ trace' = Append(trace, "upload_folder")
             /\ remote' = Append(remote, "upload_folder")
             /\ hub' = [hub EXCEPT !.files = @ \cup staging.files,
                                   !.commits = @ + 1]
             /\ UNCHANGED <<cli, push, impl, outcome, args, is_deterministic, vn, staging,
                            written, rpc, rloc, rlog, evald, raised>>
        ELSE Failure("upload_folder", r, Append(remote, "upload_folder"))

\* the final message, the end of the with block (fix) and return repo_url
Return ==
    /\ AtStep("return")
    /\ outcome' = "returned"
    /\ pc' = 0
    /\ staging' = ExitStaging(impl, staging)
    /\ UNCHANGED <<cli, push, impl, args, is_deterministic, vn, trace, remote, hub,
                   written, rpc, rloc, rlog, evald, raised>>

Next ==
    \/ Call
    \/ CreateRepo
    \/ EnterTmpdir
    \/ SnapshotDownload
    \/ GitAttributes
    \/ Save
    \/ VecNormalize
    \/ IsAtari
    \/ Config
    \/ Unzip
    \/ CopyConfig
    \/ MetricsZip
    \/ Evaluate
    \/ ReplayEnter
    \/ ReplayRecorder
    \/ ReplayReset
    \/ ReplayPredict
    \/ ReplayStep
    \/ ReplayClose
    \/ ReplayEncode
    \/ ReplayExit
    \/ Cleanup
    \/ Card
    \/ Logs
    \/ UploadFolder
    \/ Return

Spec == Init /\ [][Next]_vars

\* A running call always takes its next statement.
FairSpec == Spec /\ WF_vars(Next)

(***************************************************************************)
(* push_to_hub of fix_huggingface_sb3 (lines 367-394): one call uploads    *)
(* one file.  A filename is the sequence of its path components.           *)
(***************************************************************************)
MaxPathLen == 2

PathParts == {"logs", "ppo.zip", "replay.mp4"}

Filenames == UNION {[1..n -> PathParts] : n \in 1..MaxPathLen}

\* The repo_id argument, given with or without its namespace.
RepoIds == {"model", "user/model"}

\* RepoUrl.repo_id of the value create_repo returns: the id with its namespace.
RepoUrlId(repo_id) == IF repo_id = "model" THEN "user/model" ELSE repo_id

\* create_repo(repo_id=repo_id, exist_ok=True), line 383.
ExistOk == TRUE

\* The hub answers 409 for an existing repository unless exist_ok is set.
Conflict(exists, exist_ok) == exists /\ ~exist_ok

\* Path(filename).name, line 388: the last path component.
PathNameFirst(filename) == filename[1]

PathName(filename) == filename[Len(filename)]

AtPush(s) == outcome = "running" /\ push.pc = s

\* No try block in push_to_hub: whatever a statement raises ends the call.
PushRaise(s, k, rem) ==
    /\ outcome' = "raised"
    /\ raised' = [at |-> s, kind |-> k, seen |-> raised.seen \cup {s}]
    /\ push' = [push EXCEPT !.pc = "done"]
    /\ remote' = rem
    /\ UNCHANGED <<impl, pc, args, is_deterministic, vn, trace, hub, staging,
                   written, rpc, rloc, rlog, evald, cli>>

PushCall ==
    /\ outcome = "idle"
    /\ \E id \in RepoIds, f \in Filenames, ex \in BOOLEAN, fs \in RemoteContents :
        /\ ~ex => fs = {}
        /\ push' = [NoPush EXCEPT !.pc = "create_repo", !.repo_id = id,
                                  !.filename = f]
        /\ hub' = [exists |-> ex, created |-> FALSE, files |-> fs, commits |-> 0]
    /\ outcome' = "running"
    /\ UNCHANGED <<impl, pc, args, is_deterministic, vn, trace, remote, staging,
                   written, rpc, rloc, rlog, evald, raised, cli>>

\* Lines 382-383.
PushCreateRepo ==
    /\ AtPush("create_repo")
    /\ \E r \in Outcomes :
        LET rem == Append(remote, "create_repo") IN
        IF Conflict(hub.exists, ExistOk)
        THEN PushRaise("create_repo_conflict", "Exception", rem)
        ELSE IF r = "ok"
        THEN /\ hub' = [hub EXCEPT !.exists = TRUE, !.created = ~hub.exists]
             /\ push' = [push EXCEPT !.pc = "upload_file",
                                     !.repo_url = RepoUrlId(push.repo_id)]
             /\ remote' = rem
             /\ UNCHANGED <<impl, pc, outcome, args, is_deterministic, vn, trace,
                            staging, written, rpc, rloc, rlog, evald, raised, cli>>
        ELSE PushRaise("create_repo", r, rem)

\* Lines 385-391.
PushUploadFile ==
    /\ AtPush("upload_file")
    /\ \E r \in Outcomes :
        LET rem == Append(remote, "upload_file") IN
        IF r = "ok"
        THEN /\ hub' = [hub EXCEPT !.files = @ \cup {PathName(push.filename)},
                                   !.commits = @ + 1]
             /\ push' = [push EXCEPT
                           !.pc = "return",
                           !.uploads = Append(@,
                               [path_or_fileobj |-> push.filename,
                                path_in_repo    |-> PathName(push.filename),
                                repo_id         |-> push.repo_url])]
             /\ remote' = rem
             /\ UNCHANGED <<impl, pc, outcome, args, is_deterministic, vn, trace,
                            staging, written, rpc, rloc, rlog, evald, raised, cli>>
        ELSE PushRaise("upload_file", r, rem)

\* Lines 393-394.
PushReturn ==
    /\ AtPush("return")
    /\ outcome' = "returned"
    /\ push' = [push EXCEPT !.pc = "done", !.result = push.repo_url]
    /\ UNCHANGED <<impl, pc, args, is_deterministic, vn, trace, remote, hub,
                   staging, written, rpc, rloc, rlog, evald, raised, cli>>

PushNext ==
    \/ PushCall
    \/ PushCreateRepo
    \/ PushUploadFile
    \/ PushReturn

PushSpec == Init /\ [][PushNext]_vars

(***************************************************************************)
(* The command-line entry point of rl_zoo3/push_to_hub.py (lines 281-431)  *)
(***************************************************************************)
CliArgs == [stochastic   : BOOLEAN,
            deterministic: BOOLEAN,
            no_render    : BOOLEAN,
            n_timesteps  : 0..MaxVideoLength]

\* What ExperimentManager.is_atari and is_minigrid answer for one environment
\* id: both look at the entry point of its registration, so at most one holds.
EnvTypes == {<<FALSE, FALSE>>, <<TRUE, FALSE>>, <<FALSE, TRUE>>}

\* Line 401.
StochasticAtariOnly(args_stochastic, args_deterministic, atari, minigrid) ==
    args_stochastic \/ (atari /\ ~args_deterministic)

Stochastic(args_stochastic, args_deterministic, atari, minigrid) ==
    args_stochastic \/ ((atari \/ minigrid) /\ ~args_deterministic)

\* Line 402.
Deterministic(stochastic) == ~stochastic

AtMain(s) == outcome = "idle" /\ cli.pc = s

\* Module-level code without a try block: an exception ends the process.
MainRaise(s, k) ==
    /\ outcome' = "raised"
    /\ raised' = [at |-> s, kind |-> k, seen |-> raised.seen \cup {s}]
    /\ cli' = [cli EXCEPT !.pc = "done"]
    /\ UNCHANGED <<impl, pc, args, is_deterministic, vn, trace, remote, hub,
                   staging, written, rpc, rloc, rlog, evald, push>>

\* Lines 282-333: parser.parse_args().
MainParseArgs ==
    /\ AtMain("none")
    /\ push.pc = "none"
    /\ \E a \in CliArgs : cli' = [cli EXCEPT !.pc = "env_type", !.args = a]
    /\ UNCHANGED <<impl, pc, outcome, args, is_deterministic, vn, trace, remote,
                   hub, staging, written, rpc, rloc, rlog, evald, raised, push>>

\* Lines 349-350.
MainEnvType ==
    /\ AtMain("env_type")
    /\ \E t \in EnvTypes :
        cli' = [cli EXCEPT !.pc = "load", !.is_atari = t[1], !.is_minigrid = t[2]]
    /\ UNCHANGED <<impl, pc, outcome, args, is_deterministic, vn, trace, remote,
                   hub, staging, written, rpc, rloc, rlog, evald, raised, push>>

\* Lines 352-398: create_test_env and ALGOS[algo].load.
MainLoad ==
    /\ AtMain("load")
    /\ \E r \in Outcomes :
        IF r = "ok"
        THEN /\ cli' = [cli EXCEPT !.pc = "deterministic"]
             /\ UNCHANGED <<impl, pc, outcome, args, is_deterministic, vn, trace,
                            remote, hub, staging, written, rpc, rloc, rlog, evald,
                            raised, push>>
        ELSE MainRaise("load", r)

\* Lines 400-402.
MainDeterministic ==
    /\ AtMain("deterministic")
    /\ LET stochastic == Stochastic(cli.args.stochastic, cli.args.deterministic,
                                    cli.is_atari, cli.is_minigrid)
       IN cli' = [cli EXCEPT !.pc = "package_to_hub",
                             !.stochastic = {stochastic},
                             !.deterministic = {Deterministic(stochastic)}]
    /\ UNCHANGED <<impl, pc, outcome, args, is_deterministic, vn, trace, remote,
                   hub, staging, written, rpc, rloc, rlog, evald, raised, push>>

\* Lines 413-431: the call of package_to_hub of rl_zoo3 with
\* is_deterministic=deterministic, video_length=args.n_timesteps and
\* generate_video=not args.no_render.
MainPackageToHub ==
    /\ AtMain("package_to_hub")
    /\ \E deterministic \in cli.deterministic, hv \in BOOLEAN, tr \in BOOLEAN,
          nr \in BOOLEAN, ex \in BOOLEAN, fs \in RemoteContents :
        /\ ~hv => (tr /\ nr)
        /\ ~ex => fs = {}
        /\ impl' = "zoo"
        /\ args' = [model_name        |-> [stem |-> "model", ext |-> ""],
                    is_deterministic  |-> deterministic,
                    video_length      |-> cli.args.n_timesteps,
                    generate_video    |-> ~cli.args.no_render,
                    logs              |-> FALSE,
                    has_vec_normalize |-> hv,
                    env_is_atari      |-> cli.is_atari]
        /\ is_deterministic' = deterministic
        /\ vn' = [training |-> tr, norm_reward |-> nr]
        /\ hub' = [exists |-> ex, created |-> FALSE, files |-> fs, commits |-> 0]
    /\ outcome' = "running"
    /\ pc' = 1
    /\ cli' = [cli EXCEPT !.pc = "called"]
    /\ UNCHANGED <<trace, remote, staging, written, rpc, rloc, rlog, evald,
                   raised, push>>

\* One run of the script: the module-level code, then the body of the
\* package_to_hub it calls.
MainNext ==
    \/ MainParseArgs
    \/ MainEnvType
    \/ MainLoad
    \/ MainDeterministic
    \/ MainPackageToHub
    \/ CreateRepo
    \/ SnapshotDownload
    \/ GitAttributes
    \/ Save
    \/ VecNormalize
    \/ Unzip
    \/ CopyConfig
    \/ MetricsZip
    \/ Evaluate
    \/ ReplayEnter
    \/ ReplayRecorder
    \/ ReplayReset
    \/ ReplayPredict
    \/ ReplayStep
    \/ ReplayClose
    \/ ReplayEncode
    \/ ReplayExit
    \/ Cleanup
    \/ Card
    \/ UploadFolder
    \/ Return

MainSpec == Init /\ [][MainNext]_vars

TypeOK ==
    /\ impl \in Impls
    /\ outcome \in {"idle", "running", "returned", "raised"}
    /\ pc \in 0..Len(Pipeline(impl))
    /\ args \in Args
    /\ is_deterministic \in BOOLEAN
    /\ vn \in [training : BOOLEAN, norm_reward : BOOLEAN]
    /\ staging.exists \in BOOLEAN
    /\ rloc.i \in 0..(MaxVideoLength + 1)

(***************************************************************************)
(* Properties                                                              *)
(***************************************************************************)
Done(s) == \E j \in DOMAIN trace : trace[j] = s

Pos(s) == CHOOSE j \in DOMAIN trace : trace[j] = s

Times(seq, s) == Cardinality({j \in DOMAIN seq : seq[j] = s})

Ended == outcome \in {"returned", "raised"}

CoreSteps == <<"save", "evaluate", "replay", "card", "upload_folder">>

\* C1: in both implementations the steps of one call happen in the order
\* save, evaluate, record replay, model card, upload_folder: a step is done
\* only after the ones before it (the replay of rl_zoo3 only if
\* generate_video asks for it), while the replay runs the evaluation is over
\* and neither the card nor the upload has started, upload_folder is the last
\* step and is called at most once.
C1_StepOrder ==
    /\ \A a \in 1..Len(CoreSteps) : Times(trace, CoreSteps[a]) <= 1
    /\ \A a, b \in 1..Len(CoreSteps) :
          (a < b /\ Done(CoreSteps[b])) =>
              /\ Done(CoreSteps[a]) \/ (CoreSteps[a] = "replay" /\ ~ReplayWanted)
              /\ Done(CoreSteps[a]) => Pos(CoreSteps[a]) < Pos(CoreSteps[b])
    /\ rpc # "none" => Done("evaluate") /\ ~Done("card") /\ ~Done("upload_folder")
    /\ Done("upload_folder") => trace[Len(trace)] = "upload_folder"
    /\ Times(remote, "upload_folder") <= 1

C1_Witness ==
    /\ outcome = "returned"
    /\ impl = "zoo"
    /\ \A a \in 1..Len(CoreSteps) : Done(CoreSteps[a])

\* The statements of the replay step that the claim names.
ReplayStatements == {"recorder", "reset", "predict", "step", "close", "encode"}

\* C2: no Exception raised by a statement of the replay step ends
\* package_to_hub.
C2_ReplayFailureNeverAborts ==
    ~(outcome = "raised" /\ raised.kind = "Exception"
        /\ raised.at \in ReplayStatements)

\* C3: when saving the model, generating the config, evaluating or writing
\* the model card raises, package_to_hub ends with that exception and
\* upload_folder is not called in that run.
C3_OtherFailuresPropagate ==
    \A s \in {"save", "config", "evaluate", "card"} :
        s \in raised.seen =>
            /\ outcome = "raised"
            /\ raised.at = s
            /\ Times(remote, "upload_folder") = 0
            /\ hub.commits = 0

C3_Witness ==
    /\ outcome = "raised"
    /\ raised.at = "card"
    /\ Done("replay")
    /\ rlog.fails > 0

\* C4 as stated: create_repo is called only once saving, evaluation and card
\* generation are over, and a run that fails before the upload leaves no
\* repository created by it.
C4_CreateRepoAfterCard ==
    /\ Times(remote, "create_repo") > 0 =>
          Done("save") /\ Done("evaluate") /\ Done("card")
    /\ (outcome = "raised" /\ ~Done("card")) => ~hub.created

\* C4 amended: create_repo is the first statement of the pipeline, before
\* anything is saved; a repository created by the run exists from then on,
\* also when the run fails later, and nothing is committed to it before
\* upload_folder, the last step.
C4_CreateRepoFirst ==
    /\ trace # <<>> => trace[1] = "create_repo"
    /\ Times(remote, "create_repo") <= 1
    /\ hub.created => Done("create_repo") /\ hub.exists
    /\ ~Done("upload_folder") => hub.commits = 0
    /\ Done("upload_folder") => trace[Len(trace)] = "upload_folder" /\ hub.commits = 1

C4_Witness ==
    /\ outcome = "raised"
    /\ raised.at = "evaluate"
    /\ hub.created
    /\ hub.commits = 0

\* C5 as stated: a successful run makes exactly the two remote calls
\* create_repo and upload_folder.
C5_TwoRemoteCalls ==
    outcome = "returned" => remote = <<"create_repo", "upload_folder">>

\* C5 amended: a successful run of fix_huggingface_sb3 makes exactly the
\* remote calls create_repo, upload_folder; a successful run of rl_zoo3 makes
\* exactly create_repo, snapshot_download, upload_folder, in that order.
C5_RemoteCalls ==
    outcome = "returned" =>
        remote = IF impl = "fix"
                 THEN <<"create_repo", "upload_folder">>
                 ELSE <<"create_repo", "snapshot_download", "upload_folder">>

C5_Witness ==
    /\ outcome = "returned"
    /\ impl = "zoo"
    /\ Len(remote) = 3

\* C6 as stated: once the call has ended, normally or not, the staging
\* directory and the artifacts of the run are gone from the local disk.
C6_StagingGoneAfterCall ==
    Ended => ~staging.exists /\ staging.files = {}

\* C6 amended: in fix_huggingface_sb3 the staging directory exists from the
\* save step through the upload and is gone, with the replay's video
\* directory, once the call has ended, normally or not; in rl_zoo3 the
\* staging directory local_repo_path/repo_name exists from snapshot_download
\* on and stays on disk, with everything the run wrote to it, after the call.
C6_StagingLifetime ==
    /\ (impl = "fix" /\ Ended) =>
          ~staging.exists /\ staging.files = {} /\ ~rlog.tmp
    /\ (impl = "fix" /\ outcome = "running" /\ Done("enter_tmpdir")) =>
          staging.exists /\ written \subseteq staging.files
    /\ (impl = "fix" /\ ~Done("enter_tmpdir")) => ~staging.exists
    /\ (impl = "zoo" /\ Done("snapshot_download")) =>
          staging.exists /\ written \subseteq staging.files
    /\ Ended => ~rlog.tmp

C6_Witness ==
    /\ impl = "zoo"
    /\ outcome = "raised"
    /\ staging.exists
    /\ "model.zip" \in staging.files

\* C7: when the replay step has ended without producing replay.mp4, after an
\* exception or an interrupt in the step loop or after the encoder command
\* has run and failed, msg.fail has been called.
C7_ReplayFailureLogged ==
    (/\ Done("replay")
     /\ ~rlog.mp4
     /\ rlog.encodes = 1 \/ raised.seen \cap {"predict", "step"} # {})
        => rlog.fails > 0

Frozen == ~vn.training /\ ~vn.norm_reward

ReplayCalls(n) ==
    [j \in 1..(2 * n + 2) |->
        IF j = 2 * n + 1 THEN "close"
        ELSE IF j = 2 * n + 2 THEN "encode"
        ELSE IF j % 2 = 1 THEN "predict" ELSE "step"]

IsPrefix(s, t) == Len(s) <= Len(t) /\ \A j \in DOMAIN s : s[j] = t[j]

C9_ReplayShape ==
    /\ IsPrefix(rlog.calls, ReplayCalls(args.video_length))
    /\ \A k \in DOMAIN rlog.predicts :
          /\ rlog.predicts[k].obs = k - 1
          /\ rlog.predicts[k].state = k - 1
          /\ rlog.predicts[k].episode_start = k - 1
    /\ rlog.closes <= 1 /\ rlog.encodes <= 1
    /\ (Done("replay") /\ rlog.encodes = 1) =>
          /\ rlog.calls = ReplayCalls(args.video_length)
          /\ Len(rlog.predicts) = args.video_length
          /\ rlog.closes = 1

\* C9: _generate_replay makes predict and step calls in strict alternation,
\* the k-th predict getting the observation and episode-start flags of step
\* k-1 and the recurrent state of predict k-1 (for k = 1 the reset
\* observation, None and all-true flags); when nothing fails there are
\* exactly video_length pairs, then one close and one encode; and every
\* replay that is entered is left again.
C9_ReplayLoop ==
    /\ []C9_ReplayShape
    /\ (rpc # "none") ~> (rpc = "none")

C9_Witness ==
    /\ Done("replay")
    /\ rlog.encodes = 1
    /\ args.video_length = MaxVideoLength
    /\ Len(rlog.predicts) = MaxVideoLength

Effective == args.is_deterministic /\ ~args.env_is_atari

\* C10: in fix_huggingface_sb3 the flag given to evaluate_policy, the flag
\* written to results.json and the flag given to every predict of the replay
\* are all (is_deterministic and not is_atari(env_id)); is_atari is called
\* only if the caller passed True, and a caller's False stays False.
C10_EffectiveDeterminism ==
    impl = "fix" =>
        /\ evald.evaluate \subseteq {Effective}
        /\ evald.results = evald.evaluate
        /\ Done("evaluate") => evald.results = {Effective}
        /\ \A k \in DOMAIN rlog.predicts :
              rlog.predicts[k].deterministic = Effective
        /\ (evald.atari_consulted \/ "is_atari" \in raised.seen) =>
              args.is_deterministic
        /\ ~args.is_deterministic => ~is_deterministic
        /\ Done("is_atari") => is_deterministic = Effective

C10_Witness ==
    /\ impl = "fix"
    /\ args.is_deterministic
    /\ args.env_is_atari
    /\ evald.atari_consulted
    /\ evald.results = {FALSE}
    /\ Len(rlog.predicts) > 0

\* C11: push_to_hub calls create_repo first, with exist_ok so that an existing
\* repository is no conflict; it then uploads only the given file, to the
\* repository create_repo returned, under the last path component of filename;
\* it returns what create_repo returned; and no upload is attempted when
\* create_repo raised.
C11_PushToHub ==
    (push.pc # "none") =>
        /\ IsPrefix(remote, <<"create_repo", "upload_file">>)
        /\ "create_repo_conflict" \notin raised.seen
        /\ Len(push.uploads) <= 1
        /\ \A j \in DOMAIN push.uploads :
              /\ push.uploads[j].path_or_fileobj = push.filename
              /\ push.uploads[j].path_in_repo = push.filename[Len(push.filename)]
              /\ push.uploads[j].repo_id = push.repo_url
              /\ push.repo_url # ""
        /\ (outcome = "returned") =>
              /\ hub.exists
              /\ Len(push.uploads) = 1
              /\ hub.commits = 1
              /\ push.result = push.repo_url
        /\ (raised.at = "create_repo") => Times(remote, "upload_file") = 0

\* A call that returned after uploading a file given with a directory part to
\* a repository that already existed and whose id the hub completed.
C11_Witness ==
    /\ outcome = "returned"
    /\ Len(push.uploads) = 1
    /\ Len(push.filename) = 2
    /\ push.filename[1] # push.filename[2]
    /\ hub.exists /\ ~hub.created
    /\ push.repo_id # push.repo_url

\* C12: the is_deterministic the entry point of rl_zoo3 passes to
\* package_to_hub is FALSE when --stochastic is given, TRUE when --deterministic
\* is given without --stochastic, and with neither flag TRUE exactly when the
\* environment is neither Atari nor MiniGrid.
C12_Expected ==
    IF cli.args.stochastic THEN FALSE
    ELSE IF cli.args.deterministic THEN TRUE
    ELSE ~cli.is_atari /\ ~cli.is_minigrid

C13_ConfigAcceptsBothNames ==
    (impl = "fix" /\ Done("save")) =>
        /\ PathStr(ArchiveName(args.model_name)) = "model.zip"
        /\ "extractall" \notin raised.seen
        /\ (Done("config") /\ staging.exists) =>
              {"model.zip", "model", "config.json"} \subseteq staging.files

\* With a name given without ".zip" the step completes and leaves the
\* archive, the folder and config.json side by side.
C13_WithoutZip ==
    (impl = "fix" /\ Done("save") /\ ~EndsWithZip(args.model_name)) =>
        /\ "extractall" \notin raised.seen
        /\ (Done("config") /\ staging.exists) =>
              {"model.zip", "model", "config.json"} \subseteq staging.files

\* With a name given with ".zip" the step never completes.
C13_WithZipNeverDone ==
    (impl = "fix" /\ EndsWithZip(args.model_name)) => ~Done("config")

\* A call given the name without ".zip" whose config step is done.
C13_Witness ==
    /\ impl = "fix"
    /\ ~EndsWithZip(args.model_name)
    /\ Done("config")
    /\ staging.exists
    /\ {"model.zip", "model", "config.json"} \subseteq staging.files

=============================================================================
